---------------------------- MODULE Spec2Model ----------------------------
(***************************************************************************)
(* State-machine model of src/src/main.cpp: the ESP32-S3 <-> MCP2515 CAN   *)
(* ping-pong firmware (frame codec, controller health monitor, link        *)
(* supervisor, ping-pong protocol engine and reception dispatcher).        *)
(*                                                                         *)
(* The main loop is cut into steps at the points where the interrupt       *)
(* handler, the millisecond clock and the bus can interleave with it.      *)
(* The MCP2515 driver, millis() and the bus are the environment: a call    *)
(* into the driver is a nondeterministic outcome, the receive buffer is a  *)
(* FIFO that reset() empties.                                              *)
(***************************************************************************)
EXTENDS Integers, Sequences, FiniteSets, TLC

\* ------------------------------------------------------------------------
\* Program constants (main.cpp:13-22, 40-47)
\* ------------------------------------------------------------------------
ESP_PING_ID == 291
ESP_PONG_ID == 292
PI_PING_ID == 547
PI_PONG_ID == 548

PING_PERIOD_MS == 1000
ACTIVITY_TIMEOUT_MS == 5000
ERROR_REINIT_LIMIT == 5
HEALTH_CHECK_PERIOD_MS == 200
PASSIVE_REINIT_LIMIT == 3
SETUP_DELAY_MS == 1000
HALT_DELAY_MS == 1000

EFLG_RX1OVR == 128
EFLG_RX0OVR == 64
EFLG_TXBO == 32
EFLG_TXEP == 16
EFLG_RXEP == 8
EFLG_TXWAR == 4
EFLG_RXWAR == 2
EFLG_EWARN == 1

\* ------------------------------------------------------------------------
\* Bounds of the model
\* ------------------------------------------------------------------------
\* The clock never passes MaxClock in the link specification, MaxClockHealth
\* in the health specification (far below 2^31, so that a uint32 difference
\* fits its int32 bit pattern).
MaxClock == 6001
MaxClockHealth == 5000
\* The clock values visited lie at most MaxJitter ms above a multiple of
\* PING_PERIOD_MS, and the clock advances by at most MaxJitter ms inside the
\* loop body.
MaxJitter == 1
\* A send may fail only while fewer than MaxSendErrors failures are recorded.
MaxSendErrors == 5
\* Capacity of the controller's receive buffer in the link and health
\* specifications, and in the protocol specification.
MaxRxLink == 1
MaxRx == 3
MaxRxProto == 1
\* Frames that may arrive during one reception step.
MaxLate == 1
\* The clock never passes MaxClockProto in the protocol specification.
MaxClockProto == 2000
MaxClockRx == 2000
\* The clock never passes MaxClockBoot in the startup specification.
MaxClockBoot == 4000
\* The clock never passes MaxClockLong in the long-run specification: 258
\* ping periods.
MaxClockLong == 258000
\* Bytes and lengths overwritten in a built frame in the codec specification.
MaxEdits == 1

\* ------------------------------------------------------------------------
\* Fixed-width arithmetic
\* ------------------------------------------------------------------------
Byte == 0..255

RECURSIVE BitXor(_, _, _)
\* a ^ b on the low n bits
BitXor(a, b, n) ==
    IF n = 0 THEN 0
    ELSE (((a % 2) + (b % 2)) % 2) + 2 * BitXor(a \div 2, b \div 2, n - 1)

\* bit k of x
Bit(x, k) == (x \div (2 ^ k)) % 2

Xor8(a, b) == BitXor(a, b, 8)

\* uint8_t x; x++
Inc8(x) == (x + 1) % 256

\* A uint32 difference a - b of two clock values below 2^31 is held as its
\* int32 bit pattern: a negative d stands for the unsigned value d + 2^32.
Sub32(a, b) == a - b
\* unsigned d > t, d >= t, d < t for a threshold 0 <= t < 2^31
U32Gt(d, t) == d < 0 \/ d > t
U32Ge(d, t) == d < 0 \/ d >= t
U32Lt(d, t) == d >= 0 /\ d < t

\* ------------------------------------------------------------------------
\* Frame codec (main.cpp:55-97)
\* ------------------------------------------------------------------------
\* struct can_frame: data[i] of the source is data[i + 1] here.
D(frame, i) == frame.data[i + 1]

ZeroFrame == [can_id |-> 0, can_dlc |-> 0, data |-> <<0, 0, 0, 0, 0, 0, 0, 0>>]

buildPattern(id, counter) ==
    [can_id  |-> id,
     can_dlc |-> 8,
     data    |-> <<counter, Xor8(counter, 255), 85, 170, 195, 60, 90, 165>>]

\* patternMatches without the length test of line 72
patternMatches_NoLength(frame) ==
    LET c == D(frame, 0) IN
    /\ D(frame, 1) = Xor8(c, 255) % 256
    /\ D(frame, 2) = 85
    /\ D(frame, 3) = 170
    /\ D(frame, 4) = 195
    /\ D(frame, 5) = 60
    /\ D(frame, 6) = 90
    /\ D(frame, 7) = 165

patternMatches(frame) ==
    IF frame.can_dlc # 8 THEN FALSE
    ELSE LET c == D(frame, 0) IN
         /\ D(frame, 1) = Xor8(c, 255) % 256
         /\ D(frame, 2) = 85
         /\ D(frame, 3) = 170
         /\ D(frame, 4) = 195
         /\ D(frame, 5) = 60
         /\ D(frame, 6) = 90
         /\ D(frame, 7) = 165

RECURSIVE framesEqualFrom(_, _, _)
\* the for loop of framesEqual from index i on
framesEqualFrom(a, b, i) ==
    IF ~(i < a.can_dlc) THEN TRUE
    ELSE IF D(a, i) # D(b, i) THEN FALSE
    ELSE framesEqualFrom(a, b, i + 1)

\* framesEqual that also compares the identifiers
framesEqual_WithId(a, b) ==
    IF a.can_id # b.can_id \/ a.can_dlc # b.can_dlc THEN FALSE
    ELSE framesEqualFrom(a, b, 0)

\* framesEqual that compares all 8 data bytes whatever the length
framesEqual_AllBytes(a, b) ==
    IF a.can_dlc # b.can_dlc THEN FALSE
    ELSE \A i \in 0..7 : D(a, i) = D(b, i)

framesEqual(a, b) ==
    IF a.can_dlc # b.can_dlc THEN FALSE
    ELSE framesEqualFrom(a, b, 0)

\* ------------------------------------------------------------------------
\* State
\* ------------------------------------------------------------------------
VARIABLES
    pc,                        \* position of the program (setup, loop steps)
    clock,                     \* millis()
    now,                       \* loop(): const uint32_t now
    handledRx,                 \* loop(): bool handledRx
    espPingCounter,
    lastPingMillis,
    lastActivityMs,
    consecutiveSendErrors,
    consecutivePassiveErrors,
    lastHealthCheckMs,
    lastEspPingSent,
    hasLastEspPing,
    canIntPending,
    rxBuf,                     \* frames held by the controller, oldest first
    hm,                        \* what handleHealth did in this iteration
    sup,                       \* what recoverIfStalled did in this iteration
    lastRx,                    \* the last frame handed to processRxFrame
    sendg,                     \* the run of send results since the last reset
    streak,                    \* the run of error-passive health polls
    pingOut,                   \* the last self-ping put on the bus
    rxg,                       \* the reception step of this iteration
    rxMeta,                    \* per buffered frame: how long it has waited
    codecFrame                 \* the frame the codec functions are applied to

\* espPingFrame and rxFrame are written and read within one step (the frame
\* being sent, the frame just read): they are local to LoopStart and Drain.
progVars == <<pc, clock, now, handledRx, espPingCounter, lastPingMillis,
              lastActivityMs, consecutiveSendErrors, consecutivePassiveErrors,
              lastHealthCheckMs, lastEspPingSent, hasLastEspPing,
              canIntPending, rxBuf>>
obsVars == <<hm, sup, lastRx, sendg, streak, pingOut, rxg, rxMeta,
             codecFrame>>
vars == <<progVars, obsVars>>

\* ------------------------------------------------------------------------
\* The link state the helpers read and write, with a trace of the calls
\* they make (inits, initOks, clears, sent, log).
\* ------------------------------------------------------------------------
Cur ==
    [consecutiveSendErrors    |-> consecutiveSendErrors,
     lastActivityMs           |-> lastActivityMs,
     hasLastEspPing           |-> hasLastEspPing,
     canIntPending            |-> canIntPending,
     consecutivePassiveErrors |-> consecutivePassiveErrors,
     lastHealthCheckMs        |-> lastHealthCheckMs,
     rxBuf                    |-> rxBuf,
     polled  |-> FALSE,
     inits   |-> 0,
     initOks |-> 0,
     clears  |-> 0,
     sent    |-> <<>>,
     log     |-> <<>>]

Commit(s) ==
    /\ consecutiveSendErrors' = s.consecutiveSendErrors
    /\ lastActivityMs' = s.lastActivityMs
    /\ hasLastEspPing' = s.hasLastEspPing
    /\ canIntPending' = s.canIntPending
    /\ consecutivePassiveErrors' = s.consecutivePassiveErrors
    /\ lastHealthCheckMs' = s.lastHealthCheckMs
    /\ rxBuf' = s.rxBuf

Log(s, line) == [s EXCEPT !.log = Append(@, line)]

\* Outcomes of the driver calls of initCan.
InitOutcomes == {"ok", "bitrateErr", "modeErr"}

\* initCan that leaves the send-error counter as it is
initCan_KeepsSendErrors(s, outcome, t) ==
    LET r == [s EXCEPT !.rxBuf = <<>>, !.inits = @ + 1] IN
    IF outcome = "bitrateErr" THEN Log(r, "setBitrate failed")
    ELSE IF outcome = "modeErr" THEN Log(r, "setNormalMode failed")
    ELSE Log([r EXCEPT !.initOks = @ + 1,
                       !.lastActivityMs = t,
                       !.hasLastEspPing = FALSE,
                       !.canIntPending = FALSE,
                       !.consecutivePassiveErrors = 0,
                       !.lastHealthCheckMs = t], "MCP2515 ready")

\* initCan that sets the baseline whatever the driver calls return
initCan_ResetAlways(s, outcome, t) ==
    LET r == [s EXCEPT !.rxBuf = <<>>, !.inits = @ + 1,
                       !.consecutiveSendErrors = 0,
                       !.lastActivityMs = t,
                       !.hasLastEspPing = FALSE,
                       !.canIntPending = FALSE,
                       !.consecutivePassiveErrors = 0,
                       !.lastHealthCheckMs = t]
    IN IF outcome = "bitrateErr" THEN Log(r, "setBitrate failed")
       ELSE IF outcome = "modeErr" THEN Log(r, "setNormalMode failed")
       ELSE Log([r EXCEPT !.initOks = @ + 1], "MCP2515 ready")

\* initCan() called when millis() reads t; reset() empties the controller.
initCan(s, outcome, t) ==
    LET r == [s EXCEPT !.rxBuf = <<>>, !.inits = @ + 1] IN
    IF outcome = "bitrateErr" THEN Log(r, "setBitrate failed")
    ELSE IF outcome = "modeErr" THEN Log(r, "setNormalMode failed")
    ELSE Log([r EXCEPT !.consecutiveSendErrors = 0,
                       !.lastActivityMs = t,
                       !.hasLastEspPing = FALSE,
                       !.canIntPending = FALSE,
                       !.consecutivePassiveErrors = 0,
                       !.lastHealthCheckMs = t,
                       !.initOks = @ + 1],
             "MCP2515 ready")

\* recoverIfStalled with the hard limit compared by > instead of >=
recoverIfStalled_LimitOffByOne(s, n, outcome, t) ==
    IF s.consecutiveSendErrors > ERROR_REINIT_LIMIT THEN
        LET r == initCan(Log(s, "Too many send errors"), outcome, t) IN
        IF r.initOks > s.initOks THEN [r EXCEPT !.consecutiveSendErrors = 0]
        ELSE r
    ELSE IF /\ U32Gt(Sub32(n, s.lastActivityMs), ACTIVITY_TIMEOUT_MS)
            /\ s.consecutiveSendErrors > 0 THEN
        initCan(Log(s, "Activity timeout with errors"), outcome, t)
    ELSE s

\* recoverIfStalled with the soft path not gated by recorded send errors
recoverIfStalled_TimeoutOnly(s, n, outcome, t) ==
    IF s.consecutiveSendErrors >= ERROR_REINIT_LIMIT THEN
        LET r == initCan(Log(s, "Too many send errors"), outcome, t) IN
        IF r.initOks > s.initOks THEN [r EXCEPT !.consecutiveSendErrors = 0]
        ELSE r
    ELSE IF U32Gt(Sub32(n, s.lastActivityMs), ACTIVITY_TIMEOUT_MS) THEN
        initCan(Log(s, "Activity timeout with errors"), outcome, t)
    ELSE s

\* recoverIfStalled(now) with millis() reading t
recoverIfStalled(s, n, outcome, t) ==
    IF s.consecutiveSendErrors >= ERROR_REINIT_LIMIT THEN
        LET r == initCan(Log(s, "Too many send errors"), outcome, t) IN
        IF r.initOks > s.initOks THEN [r EXCEPT !.consecutiveSendErrors = 0]
        ELSE r
    ELSE IF /\ U32Gt(Sub32(n, s.lastActivityMs), ACTIVITY_TIMEOUT_MS)
            /\ s.consecutiveSendErrors > 0 THEN
        initCan(Log(s, "Activity timeout with errors"), outcome, t)
    ELSE s

\* sendFrame(frame): ok is the result of sendMessage, millis() reads t
sendFrame(s, frame, ok, t) ==
    LET r == [s EXCEPT !.sent = Append(@, frame)] IN
    IF ok THEN [r EXCEPT !.consecutiveSendErrors = 0, !.lastActivityMs = t]
    ELSE Log([r EXCEPT !.consecutiveSendErrors = Inc8(@)], "Send error")

\* (flags & mask) != 0 on a uint8_t
HasBit(flags, mask) == \E k \in 0..7 : Bit(flags, k) = 1 /\ Bit(mask, k) = 1

\* handleHealth with the bus-off test chained by else to the overflow test
handleHealth_BusOffElseOverflow(s, n, flags, outcome, t) ==
    IF U32Lt(Sub32(n, s.lastHealthCheckMs), HEALTH_CHECK_PERIOD_MS) THEN s
    ELSE
      LET s1 == [s EXCEPT !.lastHealthCheckMs = n, !.polled = TRUE]
          warn(x) == IF HasBit(flags, EFLG_EWARN) THEN Log(x, "Warning: EWARN")
                     ELSE x
          rest(x) ==
            IF HasBit(flags, EFLG_TXEP + EFLG_RXEP) THEN
                LET s3 == [x EXCEPT !.consecutivePassiveErrors = Inc8(@)] IN
                IF s3.consecutivePassiveErrors >= PASSIVE_REINIT_LIMIT
                THEN initCan(Log(s3, "Error-passive persists"), outcome, t)
                ELSE warn(s3)
            ELSE warn([x EXCEPT !.consecutivePassiveErrors = 0])
      IN
      IF HasBit(flags, EFLG_RX0OVR + EFLG_RX1OVR) THEN
          rest(Log([s1 EXCEPT !.clears = @ + 1], "RX overflow detected"))
      ELSE IF HasBit(flags, EFLG_TXBO) THEN
          initCan(Log(s1, "Bus-off detected"), outcome, t)
      ELSE rest(s1)

\* handleHealth without the hysteresis: initCan on every error-passive poll
handleHealth_NoHysteresis(s, n, flags, outcome, t) ==
    IF U32Lt(Sub32(n, s.lastHealthCheckMs), HEALTH_CHECK_PERIOD_MS) THEN s
    ELSE
      LET s1 == [s EXCEPT !.lastHealthCheckMs = n, !.polled = TRUE]
          s2 == IF HasBit(flags, EFLG_RX0OVR + EFLG_RX1OVR)
                THEN Log([s1 EXCEPT !.clears = @ + 1], "RX overflow detected")
                ELSE s1
          warn(x) == IF HasBit(flags, EFLG_EWARN) THEN Log(x, "Warning: EWARN")
                     ELSE x
      IN
      IF HasBit(flags, EFLG_TXBO) THEN
          initCan(Log(s2, "Bus-off detected"), outcome, t)
      ELSE IF HasBit(flags, EFLG_TXEP + EFLG_RXEP) THEN
          LET s3 == [s2 EXCEPT !.consecutivePassiveErrors = Inc8(@)] IN
          initCan(Log(s3, "Error-passive persists"), outcome, t)
      ELSE warn([s2 EXCEPT !.consecutivePassiveErrors = 0])

\* handleHealth that answers a receive overflow with initCan
handleHealth_OverflowReinit(s, n, flags, outcome, t) ==
    IF U32Lt(Sub32(n, s.lastHealthCheckMs), HEALTH_CHECK_PERIOD_MS) THEN s
    ELSE
      LET s1 == [s EXCEPT !.lastHealthCheckMs = n, !.polled = TRUE]
          warn(x) == IF HasBit(flags, EFLG_EWARN) THEN Log(x, "Warning: EWARN")
                     ELSE x
      IN
      IF HasBit(flags, EFLG_RX0OVR + EFLG_RX1OVR) THEN
          initCan(Log([s1 EXCEPT !.clears = @ + 1], "RX overflow detected"),
                  outcome, t)
      ELSE IF HasBit(flags, EFLG_TXBO) THEN
          initCan(Log(s1, "Bus-off detected"), outcome, t)
      ELSE IF HasBit(flags, EFLG_TXEP + EFLG_RXEP) THEN
          LET s3 == [s1 EXCEPT !.consecutivePassiveErrors = Inc8(@)] IN
          IF s3.consecutivePassiveErrors >= PASSIVE_REINIT_LIMIT
          THEN initCan(Log(s3, "Error-passive persists"), outcome, t)
          ELSE warn(s3)
      ELSE warn([s1 EXCEPT !.consecutivePassiveErrors = 0])

\* handleHealth(now): flags is what getErrorFlags returns
handleHealth(s, n, flags, outcome, t) ==
    IF U32Lt(Sub32(n, s.lastHealthCheckMs), HEALTH_CHECK_PERIOD_MS) THEN s
    ELSE
      LET s1 == [s EXCEPT !.lastHealthCheckMs = n, !.polled = TRUE]
          s2 == IF HasBit(flags, EFLG_RX0OVR + EFLG_RX1OVR)
                THEN Log([s1 EXCEPT !.clears = @ + 1], "RX overflow detected")
                ELSE s1
          warn(x) == IF HasBit(flags, EFLG_EWARN) THEN Log(x, "Warning: EWARN")
                     ELSE x
      IN
      IF HasBit(flags, EFLG_TXBO) THEN
          initCan(Log(s2, "Bus-off detected"), outcome, t)
      ELSE IF HasBit(flags, EFLG_TXEP + EFLG_RXEP) THEN
          LET s3 == [s2 EXCEPT !.consecutivePassiveErrors = Inc8(@)] IN
          IF s3.consecutivePassiveErrors >= PASSIVE_REINIT_LIMIT
          THEN initCan(Log(s3, "Error-passive persists"), outcome, t)
          ELSE warn(s3)
      ELSE warn([s2 EXCEPT !.consecutivePassiveErrors = 0])

\* processRxFrame that answers only the pings that pass validation
processRxFrame_GatedPong(s, frame, lastPing, ok, t) ==
    IF frame.can_id = ESP_PONG_ID THEN
        IF s.hasLastEspPing /\ framesEqual(lastPing, frame)
        THEN Log(s, "MATCHED (ESP-initiated)")
        ELSE Log(s, "MISMATCH (ESP-initiated)")
    ELSE IF frame.can_id = PI_PING_ID THEN
        IF patternMatches(frame)
        THEN sendFrame(Log(s, "MATCHED (Pi->ESP PING)"),
                       [frame EXCEPT !.can_id = PI_PONG_ID], ok, t)
        ELSE Log(s, "MISMATCH pattern from Pi")
    ELSE s

\* processRxFrame comparing a pong with the stored frame whether or not a
\* ping is recorded
processRxFrame_IgnoresRecord(s, frame, lastPing, ok, t) ==
    IF frame.can_id = ESP_PONG_ID THEN
        IF framesEqual(lastPing, frame)
        THEN Log(s, "MATCHED (ESP-initiated)")
        ELSE Log(s, "MISMATCH (ESP-initiated)")
    ELSE IF frame.can_id = PI_PING_ID THEN
        LET s1 == IF patternMatches(frame)
                  THEN Log(s, "MATCHED (Pi->ESP PING)")
                  ELSE Log(s, "MISMATCH pattern from Pi")
            pong == [frame EXCEPT !.can_id = PI_PONG_ID]
        IN sendFrame(s1, pong, ok, t)
    ELSE s

\* processRxFrame answering every frame that is not a self-pong
processRxFrame_AnswersAny(s, frame, lastPing, ok, t) ==
    IF frame.can_id = ESP_PONG_ID THEN
        IF s.hasLastEspPing /\ framesEqual(lastPing, frame)
        THEN Log(s, "MATCHED (ESP-initiated)")
        ELSE Log(s, "MISMATCH (ESP-initiated)")
    ELSE
        LET s1 == IF patternMatches(frame)
                  THEN Log(s, "MATCHED (Pi->ESP PING)")
                  ELSE Log(s, "MISMATCH pattern from Pi")
            pong == [frame EXCEPT !.can_id = PI_PONG_ID]
        IN sendFrame(s1, pong, ok, t)

\* processRxFrame(frame); lastPing is lastEspPingSent
processRxFrame(s, frame, lastPing, ok, t) ==
    IF frame.can_id = ESP_PONG_ID THEN
        IF s.hasLastEspPing /\ framesEqual(lastPing, frame)
        THEN Log(s, "MATCHED (ESP-initiated)")
        ELSE Log(s, "MISMATCH (ESP-initiated)")
    ELSE IF frame.can_id = PI_PING_ID THEN
        LET s1 == IF patternMatches(frame)
                  THEN Log(s, "MATCHED (Pi->ESP PING)")
                  ELSE Log(s, "MISMATCH pattern from Pi")
            pong == [frame EXCEPT !.can_id = PI_PONG_ID]
        IN sendFrame(s1, pong, ok, t)
    ELSE s

\* sendMessage may fail only below the bound on recorded failures.
SendOutcomes(s) ==
    IF s.consecutiveSendErrors < MaxSendErrors THEN {TRUE, FALSE} ELSE {TRUE}

\* ------------------------------------------------------------------------
\* Observations
\* ------------------------------------------------------------------------
NoHealth == [ran |-> FALSE, busOff |-> FALSE, passive |-> FALSE,
             overflow |-> FALSE, inits |-> 0, initOks |-> 0, clears |-> 0]
NoSup == [ran |-> FALSE, cseBefore |-> 0, inits |-> 0, initOks |-> 0,
          idleOver |-> FALSE, healthInits |-> 0, healthInitOks |-> 0,
          failsBefore |-> 0, okAfter4 |-> FALSE, timedOut |-> FALSE]

\* sendg.fails: failed sends since the last successful send or successful
\* initCan; sendg.okAfter4: the last send succeeded right after exactly 4
\* failed ones and nothing was sent or reinitialized since.
NoSends == [fails |-> 0, okAfter4 |-> FALSE]

\* s is the link state after a step that began with the record g.
SendObs(g, s, ok) ==
    LET g1 == IF s.sent = <<>> THEN g
              ELSE IF ok THEN [fails |-> 0, okAfter4 |-> g.fails = 4]
              ELSE [fails |-> g.fails + 1, okAfter4 |-> FALSE]
    IN IF s.initOks > 0 THEN NoSends ELSE g1

\* streak.n: how many health polls in a row, up to the last one, read an
\* error-passive bit with bus-off clear, the first of them starting from a
\* passive-error counter of 0 (0: no such run, or a run longer than 3).
\* cur / prior: initCan calls of handleHealth in the last poll of the run /
\* in its earlier polls. clean: no initCan succeeded since the run began.
\* afterOne: the last poll read both passive bits and bus-off clear and
\* followed a run of exactly one poll.
NoStreak == [n |-> 0, cur |-> 0, prior |-> 0, clean |-> TRUE,
             afterOne |-> FALSE]

\* The record after a poll that read flags, from a counter of cpe, and left s.
StreakObs(k, s, flags, cpe) ==
    LET busOff == HasBit(flags, EFLG_TXBO)
        passive == HasBit(flags, EFLG_TXEP + EFLG_RXEP)
    IN
    IF ~s.polled THEN k
    ELSE IF passive /\ ~busOff THEN
        IF k.n \in {1, 2} THEN
            [n |-> k.n + 1, cur |-> s.inits, prior |-> k.prior + k.cur,
             clean |-> k.clean, afterOne |-> FALSE]
        ELSE IF cpe = 0 THEN
            [n |-> 1, cur |-> s.inits, prior |-> 0, clean |-> s.initOks = 0,
             afterOne |-> FALSE]
        ELSE NoStreak
    ELSE IF ~busOff /\ k.n = 1 THEN
        [n |-> 0, cur |-> s.inits, prior |-> k.cur, clean |-> k.clean,
         afterOne |-> TRUE]
    ELSE NoStreak
NoRx == [any |-> FALSE, frame |-> ZeroFrame, log |-> <<>>, sent |-> <<>>]

\* pingOut.sent: a self-ping was put on the bus; frame: the last one;
\* initSince: an initCan call succeeded after it was sent; k: the self-pings
\* put on the bus since power-on.
NoPing == [sent |-> FALSE, frame |-> ZeroFrame, initSince |-> FALSE, k |-> 0]

PingObs(g, s) ==
    IF s.initOks > 0 /\ g.sent THEN [g EXCEPT !.initSince = TRUE] ELSE g

\* rxg describes the reception step from its start to the first event after
\* its end. snapshot: the frames buffered when the step starts (line 277);
\* arrived: those that arrive during the step; dispatched: those handed
\* to processRxFrame; drained: the while loop ran and ended; exhausted: it
\* ended on an empty buffer; raced: a frame arrived with its interrupt
\* between the test of canIntPending and its clearing.
NoRxg == [snapshot |-> <<>>, arrived |-> <<>>, dispatched |-> <<>>,
          drained |-> FALSE, exhausted |-> FALSE, raced |-> FALSE]

\* codecFrame.f: the frame; g: the frame it is compared with; copied: g was
\* made as a copy of f; built: f is as buildPattern made it;
\* edits: the bytes and lengths overwritten since.
NoCodec == [f |-> ZeroFrame, built |-> FALSE, edits |-> 0, g |-> ZeroFrame,
            copied |-> FALSE]

\* rxMeta[i] belongs to rxBuf[i]: the iterations of loop() that started with
\* the frame buffered.
Aged(meta) == [i \in 1..Len(meta) |-> meta[i] + 1]
MetaAfter(s) == IF s.inits > 0 THEN <<>> ELSE rxMeta

\* ------------------------------------------------------------------------
\* Initial state: power-on, before setup()
\* ------------------------------------------------------------------------
InitAt(start) ==
    /\ pc = start
    /\ clock = 0
    /\ now = 0
    /\ handledRx = FALSE
    /\ espPingCounter = 0
    /\ lastPingMillis = 0
    /\ lastActivityMs = 0
    /\ consecutiveSendErrors = 0
    /\ consecutivePassiveErrors = 0
    /\ lastHealthCheckMs = 0
    /\ lastEspPingSent = ZeroFrame
    /\ hasLastEspPing = FALSE
    /\ canIntPending = FALSE
    /\ rxBuf = <<>>
    /\ hm = NoHealth
    /\ sup = NoSup
    /\ lastRx = NoRx
    /\ sendg = NoSends
    /\ streak = NoStreak
    /\ pingOut = NoPing
    /\ rxg = NoRxg
    /\ rxMeta = <<>>
    /\ codecFrame = NoCodec

Init == InitAt("setup")

\* ------------------------------------------------------------------------
\* The program
\* ------------------------------------------------------------------------
\* setup(): delay(1000), then initCan(); a failure halts for ever.
Setup ==
    /\ pc = "setup"
    /\ \E outcome \in InitOutcomes :
         LET t == clock + SETUP_DELAY_MS
             s == initCan(Cur, outcome, t)
         IN /\ clock' = t
            /\ Commit(s)
            /\ rxMeta' = MetaAfter(s)
            /\ pc' = IF s.initOks = 1 THEN "loop" ELSE "halted"
    /\ UNCHANGED <<codecFrame,
                   now, handledRx, espPingCounter, lastPingMillis,
                   lastEspPingSent, hm, sup, lastRx, sendg, streak, pingOut,
                   rxg>>

\* The ping cycle advancing the counter only when the send succeeded
LoopStartSending_CountOnSuccess(OUT) ==
    /\ pc = "loop"
    /\ now' = clock
    /\ handledRx' = FALSE
    /\ pc' = "rxTest"
    /\ IF U32Ge(Sub32(clock, lastPingMillis), PING_PERIOD_MS) THEN
         \E ok \in OUT :
           LET espPingFrame == buildPattern(ESP_PING_ID, espPingCounter)
               s == sendFrame(Cur, espPingFrame, ok, clock)
           IN /\ lastPingMillis' = clock
              /\ Commit([s EXCEPT !.hasLastEspPing = TRUE])
              /\ lastEspPingSent' = espPingFrame
              /\ espPingCounter' = IF ok THEN Inc8(espPingCounter)
                                   ELSE espPingCounter
              /\ sendg' = SendObs(sendg, s, ok)
              /\ pingOut' = [sent |-> TRUE, frame |-> Head(s.sent),
                             initSince |-> FALSE, k |-> pingOut.k + 1]
       ELSE UNCHANGED <<lastPingMillis, lastEspPingSent, espPingCounter,
                        lastActivityMs, consecutiveSendErrors,
                        consecutivePassiveErrors, lastHealthCheckMs,
                        hasLastEspPing, canIntPending, rxBuf, sendg, pingOut>>
    /\ rxMeta' = Aged(rxMeta)
    /\ UNCHANGED <<codecFrame,
                   clock, hm, sup, lastRx, streak, rxg>>

\* loop(), lines 257-274: sample now, run the ping cycle when it is due;
\* OUT holds the results sendMessage may give.
LoopStartSending(OUT) ==
    /\ pc = "loop"
    /\ now' = clock
    /\ handledRx' = FALSE
    /\ pc' = "rxTest"
    /\ IF U32Ge(Sub32(clock, lastPingMillis), PING_PERIOD_MS) THEN
         \E ok \in OUT :
           LET espPingFrame == buildPattern(ESP_PING_ID, espPingCounter)
               s == sendFrame(Cur, espPingFrame, ok, clock)
           IN /\ lastPingMillis' = clock
              /\ Commit([s EXCEPT !.hasLastEspPing = TRUE])
              /\ lastEspPingSent' = espPingFrame
              /\ espPingCounter' = Inc8(espPingCounter)
              /\ sendg' = SendObs(sendg, s, ok)
              /\ pingOut' = [sent |-> TRUE, frame |-> Head(s.sent),
                             initSince |-> FALSE, k |-> pingOut.k + 1]
       ELSE UNCHANGED <<lastPingMillis, lastEspPingSent, espPingCounter,
                        lastActivityMs, consecutiveSendErrors,
                        consecutivePassiveErrors, lastHealthCheckMs,
                        hasLastEspPing, canIntPending, rxBuf, sendg, pingOut>>
    /\ rxMeta' = Aged(rxMeta)
    /\ UNCHANGED <<codecFrame,
                   clock, hm, sup, lastRx, streak, rxg>>

LoopStart == LoopStartSending(SendOutcomes(Cur))

\* loop(), line 277, left operand: canIntPending
RxTest ==
    /\ pc = "rxTest"
    /\ pc' = IF canIntPending THEN "rxClear" ELSE "rxPoll"
    /\ rxg' = [NoRxg EXCEPT !.snapshot = rxBuf]
    /\ UNCHANGED <<codecFrame,
                   clock, now, handledRx, espPingCounter, lastPingMillis,
                   lastActivityMs, consecutiveSendErrors,
                   consecutivePassiveErrors, lastHealthCheckMs,
                   lastEspPingSent, hasLastEspPing, canIntPending, rxBuf,
                   hm, sup, lastRx, sendg, streak, pingOut, rxMeta>>

\* The reception step without the polled fallback of line 277
RxPoll_NoFallback ==
    /\ pc = "rxPoll"
    /\ pc' = "health"
    /\ UNCHANGED <<clock, now, handledRx, espPingCounter, lastPingMillis,
                   lastActivityMs, consecutiveSendErrors,
                   consecutivePassiveErrors, lastHealthCheckMs,
                   lastEspPingSent, hasLastEspPing, canIntPending, rxBuf,
                   obsVars>>

\* loop(), line 277, right operand: checkReceive() reports a buffered frame
RxPoll ==
    /\ pc = "rxPoll"
    /\ pc' = IF rxBuf # <<>> THEN "rxClear" ELSE "health"
    /\ UNCHANGED <<clock, now, handledRx, espPingCounter, lastPingMillis,
                   lastActivityMs, consecutiveSendErrors,
                   consecutivePassiveErrors, lastHealthCheckMs,
                   lastEspPingSent, hasLastEspPing, canIntPending, rxBuf,
                   obsVars>>

\* loop(), line 278
RxClear ==
    /\ pc = "rxClear"
    /\ canIntPending' = FALSE
    /\ pc' = "drain"
    /\ UNCHANGED <<clock, now, handledRx, espPingCounter, lastPingMillis,
                   lastActivityMs, consecutiveSendErrors,
                   consecutivePassiveErrors, lastHealthCheckMs,
                   lastEspPingSent, hasLastEspPing, rxBuf, obsVars>>

\* Lines 280-283 for the frame at the head of the buffer: the body of the
\* while loop, which leaves the program at position next.
DrainOne(next) ==
    \E ok \in IF Head(rxBuf).can_id = PI_PING_ID
              THEN SendOutcomes(Cur) ELSE {TRUE} :
      LET rxFrame == Head(rxBuf)
          s0 == [Cur EXCEPT !.rxBuf = Tail(rxBuf), !.lastActivityMs = clock]
          s == processRxFrame(s0, rxFrame, lastEspPingSent, ok, clock)
      IN /\ handledRx' = TRUE
         /\ Commit(s)
         /\ lastRx' = [any |-> TRUE, frame |-> rxFrame, log |-> s.log,
                       sent |-> s.sent]
         /\ sendg' = SendObs(sendg, s, ok)
         /\ pc' = next
         /\ rxMeta' = Tail(rxMeta)
         /\ rxg' = [rxg EXCEPT !.dispatched = Append(@, rxFrame),
                               !.drained = next # "drain",
                               !.exhausted = next # "drain" /\ s.rxBuf = <<>>]

\* readMessage() reports no frame: the while loop ends.
DrainEnd ==
    /\ pc' = "health"
    /\ lastRx' = NoRx
    /\ rxg' = [rxg EXCEPT !.drained = TRUE, !.exhausted = TRUE]
    /\ UNCHANGED <<rxMeta, handledRx, lastActivityMs, consecutiveSendErrors,
                   consecutivePassiveErrors, lastHealthCheckMs,
                   hasLastEspPing, canIntPending, rxBuf, sendg>>

\* The reception step with an if in place of the while of line 279
Drain_SingleRead ==
    /\ pc = "drain"
    /\ IF rxBuf = <<>> THEN DrainEnd ELSE DrainOne("health")
    /\ UNCHANGED <<codecFrame,
                   clock, now, espPingCounter, lastPingMillis,
                   lastEspPingSent, hm, sup, streak, pingOut>>

\* loop(), lines 279-284: one turn of the while loop
Drain ==
    /\ pc = "drain"
    /\ IF rxBuf = <<>> THEN DrainEnd ELSE DrainOne("drain")
    /\ UNCHANGED <<codecFrame,
                   clock, now, espPingCounter, lastPingMillis,
                   lastEspPingSent, hm, sup, streak, pingOut>>

\* The poll period has elapsed: getErrorFlags() is called.
HealthDue ==
    ~U32Lt(Sub32(now, lastHealthCheckMs), HEALTH_CHECK_PERIOD_MS)

\* loop(), line 287
HandleHealth(FL) ==
    /\ pc = "health"
    /\ \E flags \in IF HealthDue THEN FL ELSE {0},
          outcome \in IF HealthDue THEN InitOutcomes ELSE {"ok"} :
         LET s == handleHealth(Cur, now, flags, outcome, clock) IN
         /\ Commit(s)
         /\ hm' = [ran |-> s.polled,
                   busOff |-> s.polled /\ HasBit(flags, EFLG_TXBO),
                   passive |-> s.polled /\ HasBit(flags, EFLG_TXEP + EFLG_RXEP),
                   overflow |-> s.polled
                                /\ HasBit(flags, EFLG_RX0OVR + EFLG_RX1OVR),
                   inits |-> s.inits, initOks |-> s.initOks,
                   clears |-> s.clears]
         /\ sendg' = SendObs(sendg, s, TRUE)
         /\ streak' = StreakObs(streak, s, flags, consecutivePassiveErrors)
         /\ pingOut' = PingObs(pingOut, s)
         /\ rxMeta' = MetaAfter(s)
    /\ rxg' = NoRxg
    /\ lastRx' = NoRx
    /\ pc' = "recover"
    /\ UNCHANGED <<codecFrame,
                   clock, now, handledRx, espPingCounter, lastPingMillis,
                   lastEspPingSent, sup>>

\* recoverIfStalled(now) reaches a call of initCan().
RecoverDue ==
    \/ consecutiveSendErrors >= ERROR_REINIT_LIMIT
    \/ /\ U32Gt(Sub32(now, lastActivityMs), ACTIVITY_TIMEOUT_MS)
       /\ consecutiveSendErrors > 0

\* loop(), line 288
Recover ==
    /\ pc = "recover"
    /\ \E outcome \in IF RecoverDue THEN InitOutcomes ELSE {"ok"} :
         LET s == recoverIfStalled(Cur, now, outcome, clock) IN
         /\ Commit(s)
         /\ sup' = [ran |-> TRUE, cseBefore |-> consecutiveSendErrors,
                    inits |-> s.inits, initOks |-> s.initOks,
                    idleOver |-> clock - lastActivityMs > ACTIVITY_TIMEOUT_MS,
                    timedOut |-> U32Gt(Sub32(now, lastActivityMs),
                                       ACTIVITY_TIMEOUT_MS),
                    healthInits |-> hm.inits,
                    healthInitOks |-> hm.initOks,
                    failsBefore |-> sendg.fails,
                    okAfter4 |-> sendg.okAfter4]
         /\ sendg' = SendObs(sendg, s, TRUE)
         /\ streak' = [streak EXCEPT !.clean = @ /\ s.initOks = 0,
                                     !.afterOne = FALSE]
         /\ pingOut' = PingObs(pingOut, s)
         /\ rxMeta' = MetaAfter(s)
    /\ hm' = NoHealth
    /\ pc' = "idle"
    /\ UNCHANGED <<codecFrame,
                   clock, now, handledRx, espPingCounter, lastPingMillis,
                   lastEspPingSent, lastRx, rxg>>

\* The clock values the model visits.
OnGrid(t, maxClock) == t <= maxClock /\ t % PING_PERIOD_MS <= MaxJitter

\* loop(), lines 290-292: delay(1) returns after at least 1 ms
LoopEnd(DT, maxClock) ==
    /\ pc = "idle"
    /\ IF handledRx THEN clock' = clock
       ELSE \E d \in DT : /\ d >= 1
                          /\ OnGrid(clock + d, maxClock)
                          /\ clock' = clock + d
    /\ pc' = "loop"
    /\ sup' = NoSup
    /\ UNCHANGED <<codecFrame,
                   now, handledRx, espPingCounter, lastPingMillis,
                   lastActivityMs, consecutiveSendErrors,
                   consecutivePassiveErrors, lastHealthCheckMs,
                   lastEspPingSent, hasLastEspPing, canIntPending, rxBuf,
                   hm, lastRx, sendg, streak, pingOut, rxg, rxMeta>>

\* ------------------------------------------------------------------------
\* The environment
\* ------------------------------------------------------------------------
Running == pc \notin {"setup", "halted"}

\* onCanInt(): the interrupt may fire between any two steps of the loop.
onCanInt ==
    /\ Running
    /\ canIntPending' = TRUE
    /\ UNCHANGED <<pc, clock, now, handledRx, espPingCounter, lastPingMillis,
                   lastActivityMs, consecutiveSendErrors,
                   consecutivePassiveErrors, lastHealthCheckMs,
                   lastEspPingSent, hasLastEspPing, rxBuf, obsVars>>

\* millis() advances: by any step between two iterations, by at most
\* MaxJitter ms while the loop body runs. The program sees the clock only
\* where it calls millis(), so the advance is taken right before such a step.
Tick(DT, maxClock) ==
    /\ pc \in {"loop", "drain", "health", "recover"}
    /\ \E d \in DT : /\ pc = "loop" \/ d <= MaxJitter
                     /\ OnGrid(clock + d, maxClock)
                     /\ clock' = clock + d
    /\ UNCHANGED <<pc, now, handledRx, espPingCounter, lastPingMillis,
                   lastActivityMs, consecutiveSendErrors,
                   consecutivePassiveErrors, lastHealthCheckMs,
                   lastEspPingSent, hasLastEspPing, canIntPending, rxBuf,
                   obsVars>>

\* The positions of the reception step after its start.
InReception == {"rxPoll", "rxClear", "drain"}

\* The controller receives a frame of FR from the bus while the program is
\* at a position of at; with int (a value of INT) the falling edge of the
\* interrupt line runs onCanInt with the arrival.
FrameArrive(FR, cap, at, INT) ==
    /\ pc \in at
    /\ Len(rxBuf) < cap
    /\ pc \in InReception => Len(rxg.arrived) < MaxLate
    /\ \E f \in FR, int \in INT :
         /\ rxBuf' = Append(rxBuf, f)
         /\ canIntPending' = (canIntPending \/ int)
         /\ rxMeta' = Append(rxMeta, 0)
         /\ rxg' = IF pc \in InReception
                   THEN [rxg EXCEPT !.arrived = Append(@, f),
                                    !.raced = @ \/ (int /\ pc = "rxClear")]
                   ELSE NoRxg
    /\ UNCHANGED <<codecFrame,
                   pc, clock, now, handledRx, espPingCounter, lastPingMillis,
                   lastActivityMs, consecutiveSendErrors,
                   consecutivePassiveErrors, lastHealthCheckMs,
                   lastEspPingSent, hasLastEspPing, hm, sup, lastRx, sendg,
                   streak, pingOut>>

\* ------------------------------------------------------------------------
\* Link specification: the link supervisor, with send failures, bus-off
\* polls and peer pings to answer
\* ------------------------------------------------------------------------
Ticks == {1, 1000}
PeerPing == buildPattern(PI_PING_ID, 7)
LinkFlags == {0, 32, 97}

NextLink ==
    \/ Setup
    \/ LoopStart
    \/ RxTest
    \/ RxPoll
    \/ RxClear
    \/ Drain
    \/ HandleHealth(LinkFlags)
    \/ Recover
    \/ LoopEnd(Ticks, MaxClock)
    \/ Tick(Ticks, MaxClock)
    \/ FrameArrive({PeerPing}, MaxRxLink, {"loop"}, {FALSE})

SpecLink == Init /\ [][NextLink]_vars

\* ------------------------------------------------------------------------
\* Health specification: the health monitor under every combination of
\* bus-off, error-passive and overflow, with and without the warning bits
\* ------------------------------------------------------------------------
HealthFlags == {0, 1, 7, 8, 16, 24, 32, 33, 48, 64, 80, 96, 128, 136, 255}
\* The clock advances in whole poll-and-ping periods: no clock sample of
\* this specification is older than a timestamp it is compared with.
HealthTicks == {1000}

NextHealth ==
    \/ Setup
    \/ LoopStart
    \/ RxTest
    \/ RxPoll
    \/ RxClear
    \/ Drain
    \/ HandleHealth(HealthFlags)
    \/ Recover
    \/ LoopEnd(HealthTicks, MaxClockHealth)
    \/ Tick(HealthTicks, MaxClockHealth)
    \/ FrameArrive({PeerPing}, MaxRxLink, {"loop"}, {FALSE})

SpecHealth == Init /\ [][NextHealth]_vars

\* ------------------------------------------------------------------------
\* Protocol specification: self-pings and their echoes, peer pings well and
\* badly formed, foreign frames, the interrupt at every point of the loop,
\* send failures and bus-off polls
\* ------------------------------------------------------------------------
ProtoTicks == {1000}
ProtoFlags == {0, 32}
OTHER_ID == 768

\* The echo of the last self-ping as the peer returns it.
Echo == [pingOut.frame EXCEPT !.can_id = ESP_PONG_ID]

\* A frame with data byte i changed on the way.
Altered(f, i) == [f EXCEPT !.data[i] = (@ + 1) % 256]

\* A peer ping cut to 4 bytes, and one with a wrong fixed byte.
PeerPingShort == [PeerPing EXCEPT !.can_dlc = 4]
PeerPingBad == Altered(PeerPing, 3)

\* The echo cut to 4 bytes.
EchoShort == [Echo EXCEPT !.can_dlc = 4]

\* Frames carrying the device's own transmit identifiers.
OwnIdFrames == {buildPattern(ESP_PING_ID, 7), buildPattern(PI_PONG_ID, 7)}

\* The frames the bus can deliver in the current state.
ProtoFrames ==
    {PeerPing, PeerPingShort, PeerPingBad, buildPattern(OTHER_ID, 7)}
    \cup OwnIdFrames
    \cup (IF pingOut.sent
          THEN {Echo, EchoShort} \cup {Altered(Echo, i) : i \in 1..8}
          ELSE {})

\* FrameArrive with the frames of the current state, before the reception
\* step and after it; the frames are found by the polled check.
ProtoArrive ==
    FrameArrive(ProtoFrames, MaxRxProto, {"rxTest", "health"}, {FALSE})

NextProto ==
    \/ Setup
    \/ LoopStart
    \/ RxTest
    \/ RxPoll
    \/ RxClear
    \/ Drain
    \/ HandleHealth(ProtoFlags)
    \/ Recover
    \/ LoopEnd(ProtoTicks, MaxClockProto)
    \/ Tick(ProtoTicks, MaxClockProto)
    \/ ProtoArrive

SpecProto == Init /\ [][NextProto]_vars

\* ------------------------------------------------------------------------
\* Reception specification: up to MaxRx frames buffered, arrivals with and
\* without their interrupt at every point of the reception step, the
\* interrupt alone at every point of the loop, controller resets
\* ------------------------------------------------------------------------
\* The positions that differ in what the program has yet to do with the
\* buffer and the pending flag.
ArrivalPoints == {"rxTest", "rxPoll", "rxClear", "drain", "health"}

RxFrames ==
    {buildPattern(OTHER_ID, 7), buildPattern(OTHER_ID, 8),
     buildPattern(ESP_PONG_ID, 0)}

NextRx ==
    \/ Setup
    \/ LoopStart
    \/ RxTest
    \/ RxPoll
    \/ RxClear
    \/ Drain
    \/ HandleHealth(ProtoFlags)
    \/ Recover
    \/ LoopEnd(ProtoTicks, MaxClockRx)
    \/ Tick(ProtoTicks, MaxClockRx)
    \/ onCanInt
    \/ FrameArrive(RxFrames, MaxRx, ArrivalPoints, BOOLEAN)

SpecRx == Init /\ [][NextRx]_vars

\* ------------------------------------------------------------------------
\* Codec specification: buildPattern for every counter, then bytes and the
\* length overwritten
\* ------------------------------------------------------------------------
CodecIds == {ESP_PING_ID, PI_PING_ID}
CodecBytes == {0, 85, 255}

\* buildPattern(frame, id, counter)
CodecBuild ==
    /\ pc = "codec"
    /\ ~codecFrame.built
    /\ \E id \in CodecIds, counter \in Byte :
         codecFrame' = [codecFrame EXCEPT !.f = buildPattern(id, counter),
                                          !.built = TRUE, !.edits = 0]
    /\ UNCHANGED <<progVars, hm, sup, lastRx, sendg, streak, pingOut, rxg,
                   rxMeta>>

\* frame.data[i] = v
CodecSetByte ==
    /\ pc = "codec"
    /\ codecFrame.edits < MaxEdits
    /\ \E i \in 1..8, v \in CodecBytes :
         codecFrame' = [codecFrame EXCEPT !.f.data[i] = v, !.edits = @ + 1]
    /\ UNCHANGED <<progVars, hm, sup, lastRx, sendg, streak, pingOut, rxg,
                   rxMeta>>

\* frame.can_dlc = n
CodecSetLen ==
    /\ pc = "codec"
    /\ codecFrame.edits < MaxEdits
    /\ \E n \in 0..8 :
         codecFrame' = [codecFrame EXCEPT !.f.can_dlc = n, !.edits = @ + 1]
    /\ UNCHANGED <<progVars, hm, sup, lastRx, sendg, streak, pingOut, rxg,
                   rxMeta>>

InitCodec == InitAt("codec")

NextCodec == CodecBuild \/ CodecSetByte \/ CodecSetLen

SpecCodec == InitCodec /\ [][NextCodec]_vars

\* ------------------------------------------------------------------------
\* Startup specification: setup() with every outcome of initCan, then the
\* loop or the halt; frames and interrupts keep coming after the halt
\* ------------------------------------------------------------------------
\* setup(), lines 249-251, with a further initCan in the halt loop
HaltLoop_Retry ==
    /\ pc = "halted"
    /\ OnGrid(clock + HALT_DELAY_MS, MaxClockBoot)
    /\ \E outcome \in InitOutcomes :
         LET t == clock + HALT_DELAY_MS
             s == initCan(Cur, outcome, t)
         IN /\ clock' = t
            /\ Commit(s)
            /\ rxMeta' = MetaAfter(s)
            /\ pc' = IF s.initOks = 1 THEN "loop" ELSE "halted"
    /\ UNCHANGED <<codecFrame, now, handledRx, espPingCounter,
                   lastPingMillis, lastEspPingSent, hm, sup, lastRx, sendg,
                   streak, pingOut, rxg>>

\* setup(), lines 249-251: while (true) delay(1000)
HaltLoop ==
    /\ pc = "halted"
    /\ OnGrid(clock + HALT_DELAY_MS, MaxClockBoot)
    /\ clock' = clock + HALT_DELAY_MS
    /\ UNCHANGED <<pc, now, handledRx, espPingCounter, lastPingMillis,
                   lastActivityMs, consecutiveSendErrors,
                   consecutivePassiveErrors, lastHealthCheckMs,
                   lastEspPingSent, hasLastEspPing, canIntPending, rxBuf,
                   obsVars>>

NextBoot ==
    \/ Setup
    \/ HaltLoop
    \/ LoopStart
    \/ RxTest
    \/ RxPoll
    \/ RxClear
    \/ Drain
    \/ HandleHealth(ProtoFlags)
    \/ Recover
    \/ LoopEnd(ProtoTicks, MaxClockProto)
    \/ Tick(ProtoTicks, MaxClockProto)
    \/ FrameArrive({PeerPing}, MaxRxLink, {"halted", "rxTest"}, BOOLEAN)

SpecBoot == Init /\ [][NextBoot]_vars

\* ------------------------------------------------------------------------
\* Long-run specification: more than 256 ping cycles, every send free to
\* fail, every initCan free to fail; the clock advances in the delay of
\* line 291, one ping period per iteration
\* ------------------------------------------------------------------------
LongFlags == {0}

NextLong ==
    \/ Setup
    \/ LoopStartSending(BOOLEAN)
    \/ RxTest
    \/ RxPoll
    \/ HandleHealth(LongFlags)
    \/ Recover
    \/ LoopEnd(HealthTicks, MaxClockLong)

SpecLong == Init /\ [][NextLong]_vars

\* ------------------------------------------------------------------------
\* Numbering specification: the long run with iterations 1 ms apart as well
\* as one ping period apart, and runs of at most MaxSendErrors failed sends
\* ------------------------------------------------------------------------
NextCount ==
    \/ Setup
    \/ LoopStart
    \/ RxTest
    \/ RxPoll
    \/ HandleHealth(LongFlags)
    \/ Recover
    \/ LoopEnd(Ticks, MaxClockLong)

SpecCount == Init /\ [][NextCount]_vars

\* ------------------------------------------------------------------------
\* Reinitialization specification: the health specification with the
\* interrupt firing at every point of the loop
\* ------------------------------------------------------------------------
NextInit == NextHealth \/ onCanInt

SpecInit == Init /\ [][NextInit]_vars

\* ------------------------------------------------------------------------
\* Comparison specification: framesEqual(a, b) with a = codecFrame.f and
\* b = codecFrame.g. a is the zero frame or a built frame, with bytes and
\* the length overwritten; b is a copy of a with bytes, the length and the
\* identifier overwritten.
\* ------------------------------------------------------------------------
EqualCounters == {0, 7, 255}

\* The parts of the state the comparison specification leaves alone.
EqualKeeps == <<progVars, hm, sup, lastRx, sendg, streak, pingOut, rxg, rxMeta>>

\* buildPattern(a, id, counter)
EqualBuild ==
    /\ pc = "equal"
    /\ ~codecFrame.built /\ ~codecFrame.copied
    /\ \E counter \in EqualCounters :
         codecFrame' = [codecFrame EXCEPT
                           !.f = buildPattern(ESP_PING_ID, counter),
                           !.built = TRUE, !.edits = 0]
    /\ UNCHANGED EqualKeeps

\* a.data[i] = v, a.can_dlc = n
EqualEditA ==
    /\ pc = "equal"
    /\ ~codecFrame.copied
    /\ codecFrame.edits < MaxEdits
    /\ \/ \E i \in 1..8, v \in CodecBytes :
            codecFrame' = [codecFrame EXCEPT !.f.data[i] = v, !.edits = @ + 1]
       \/ \E n \in 0..8 :
            codecFrame' = [codecFrame EXCEPT !.f.can_dlc = n, !.edits = @ + 1]
    /\ UNCHANGED EqualKeeps

\* struct can_frame b = a
EqualCopy ==
    /\ pc = "equal"
    /\ ~codecFrame.copied
    /\ codecFrame' = [codecFrame EXCEPT !.g = codecFrame.f, !.copied = TRUE,
                                        !.edits = 0]
    /\ UNCHANGED EqualKeeps

\* b.data[i] = v, b.can_dlc = n, b.can_id = id
EqualEditB ==
    /\ pc = "equal"
    /\ codecFrame.copied
    /\ codecFrame.edits < MaxEdits
    /\ \/ \E i \in 1..8, v \in CodecBytes :
            codecFrame' = [codecFrame EXCEPT !.g.data[i] = v, !.edits = @ + 1]
       \/ \E n \in 0..8 :
            codecFrame' = [codecFrame EXCEPT !.g.can_dlc = n, !.edits = @ + 1]
       \/ \E id \in {ESP_PONG_ID, OTHER_ID} :
            codecFrame' = [codecFrame EXCEPT !.g.can_id = id, !.edits = @ + 1]
    /\ UNCHANGED EqualKeeps

InitEqual == InitAt("equal")

NextEqual == EqualBuild \/ EqualEditA \/ EqualCopy \/ EqualEditB

SpecEqual == InitEqual /\ [][NextEqual]_vars

\* ------------------------------------------------------------------------
\* Claims
\* ------------------------------------------------------------------------

\* C1: in an iteration with fewer than 5 send errors recorded,
\* recoverIfStalled calls initCan only if at least one send error is
\* recorded and more than 5000 ms of clock time have really passed since
\* the most recent activity (sup.idleOver: millis() - lastActivityMs > 5000
\* when recoverIfStalled runs).
C1_SoftReinitOnlyAfterRealTimeout ==
    (sup.ran /\ sup.cseBefore < ERROR_REINIT_LIMIT /\ sup.inits > 0)
        => (sup.cseBefore > 0 /\ sup.idleOver)

\* C2: recoverIfStalled running with 5 consecutive failed sends recorded
\* calls initCan exactly once; running right after 4 failed sends and one
\* successful send it finds the counter at 0 and does not call initCan.
C2_HardLimitReinit ==
    sup.ran =>
        /\ sup.failsBefore = ERROR_REINIT_LIMIT => sup.inits = 1
        /\ sup.okAfter4 => (sup.cseBefore = 0 /\ sup.inits = 0)

C2_Witness ==
    sup.ran /\ sup.failsBefore = ERROR_REINIT_LIMIT /\ sup.inits = 1

\* C3: with a consecutive-send-error count of zero recoverIfStalled never
\* calls initCan, however long ago the last activity was.
C3_NoReinitWithoutErrors ==
    (sup.ran /\ sup.cseBefore = 0) => sup.inits = 0

C3_Witness ==
    sup.ran /\ sup.cseBefore = 0 /\ sup.timedOut /\ sup.inits = 0

\* C4: a health poll that runs and reads the bus-off bit calls initCan
\* exactly once, whatever the passive-error counter and the other bits are.
C4_BusOffReinit ==
    (hm.ran /\ hm.busOff) => hm.inits = 1

C4_Witness ==
    /\ hm.ran /\ hm.busOff /\ hm.passive /\ hm.overflow
    /\ hm.inits = 1 /\ hm.initOks = 0
    /\ consecutivePassiveErrors >= 2

\* C5 as stated: three consecutive error-passive polls (bus-off clear), the
\* first from a passive-error counter of 0, give exactly one initCan call by
\* handleHealth, on the third poll; one such poll followed by a poll with
\* the passive bits and bus-off clear gives none and leaves the counter 0.
C5_ThreePassivePolls ==
    /\ streak.n = 3 => (streak.prior = 0 /\ streak.cur = 1)
    /\ (hm.ran /\ streak.afterOne)
          => (streak.prior = 0 /\ streak.cur = 0
              /\ consecutivePassiveErrors = 0)

\* C5 as amended: the same, provided no initCan call succeeds between the
\* first and the third poll.
C5_ThreePassivePollsNoReset ==
    /\ (streak.n = 3 /\ streak.clean) => (streak.prior = 0 /\ streak.cur = 1)
    /\ (hm.ran /\ streak.afterOne)
          => (streak.prior = 0 /\ streak.cur = 0
              /\ consecutivePassiveErrors = 0)

C5_Witness ==
    streak.n = 3 /\ streak.clean /\ streak.cur = 1 /\ streak.prior = 0

\* C6 (as stated): a drained frame with the self-pong identifier that carries
\* the length and data bytes of the last self-ping sent is logged MATCHED,
\* whatever happened between the ping and the pong; one that differs from it
\* in a single data byte is logged MISMATCH.
C6_EchoMatched ==
    (lastRx.any /\ lastRx.frame.can_id = ESP_PONG_ID /\ pingOut.sent) =>
        LET f == lastRx.frame
            g == pingOut.frame
            diff == {i \in 1..8 : f.data[i] # g.data[i]}
        IN /\ (f.can_dlc = g.can_dlc /\ diff = {})
                 => lastRx.log = <<"MATCHED (ESP-initiated)">>
           /\ (f.can_dlc = g.can_dlc /\ Cardinality(diff) = 1)
                 => lastRx.log = <<"MISMATCH (ESP-initiated)">>

\* C6 (amended): the same, for the echoes drained with no successful initCan
\* call between the ping and the pong; an echo altered in a single data
\* byte is logged MISMATCH in every case.
C6_EchoMatchedNoReset ==
    (lastRx.any /\ lastRx.frame.can_id = ESP_PONG_ID /\ pingOut.sent) =>
        LET f == lastRx.frame
            g == pingOut.frame
            diff == {i \in 1..8 : f.data[i] # g.data[i]}
        IN /\ (f.can_dlc = g.can_dlc /\ diff = {} /\ ~pingOut.initSince)
                 => lastRx.log = <<"MATCHED (ESP-initiated)">>
           /\ (f.can_dlc = g.can_dlc /\ Cardinality(diff) = 1)
                 => lastRx.log = <<"MISMATCH (ESP-initiated)">>

\* The echo of the second self-ping is drained and logged MATCHED while send
\* errors are recorded.
C6_Witness ==
    /\ lastRx.any /\ lastRx.frame.can_id = ESP_PONG_ID
    /\ pingOut.sent /\ ~pingOut.initSince
    /\ lastRx.frame.data = pingOut.frame.data
    /\ lastRx.frame.data[1] = 1
    /\ lastRx.log = <<"MATCHED (ESP-initiated)">>
    /\ consecutiveSendErrors > 0

\* C7: when the reception step starts with N >= 1 frames buffered, the step
\* ends only on an empty buffer and has handed to processRxFrame exactly the
\* N frames and those that arrived meanwhile, in arrival order, each once.
C7_DrainToEmpty ==
    /\ (pc = "health" /\ Len(rxg.snapshot) >= 1) =>
          /\ rxg.drained /\ rxg.exhausted /\ handledRx
          /\ rxg.dispatched = rxg.snapshot \o rxg.arrived
    /\ pc = "drain" => rxg.dispatched \o rxBuf = rxg.snapshot \o rxg.arrived

\* Three different frames buffered at the start are dispatched in order,
\* after a fourth that arrived during the drain.
C7_Witness ==
    /\ pc = "health"
    /\ Len(rxg.snapshot) = 3
    /\ Cardinality({rxg.snapshot[i] : i \in 1..3}) = 3
    /\ Len(rxg.arrived) = 1
    /\ rxg.dispatched = rxg.snapshot \o rxg.arrived

\* C8: a buffered frame has seen at most one iteration start, and none once
\* the reception step of an iteration is over: it is dispatched by the end
\* of the reception step of the iteration after its arrival, unless initCan
\* resets the controller first. A drain that finds the buffer empty
\* dispatches nothing.
C8_NoLostDataReady ==
    /\ Len(rxMeta) = Len(rxBuf)
    /\ \A i \in 1..Len(rxMeta) :
          /\ rxMeta[i] <= 1
          /\ pc \in {"health", "recover", "idle", "loop"} => rxMeta[i] = 0
    /\ (pc = "health" /\ rxg.drained /\ rxg.snapshot \o rxg.arrived = <<>>)
          => (rxg.dispatched = <<>> /\ ~handledRx)

\* A frame arrives with its interrupt between the test of canIntPending and
\* the clearing: the flag is lost, the frame is dispatched all the same.
C8_Witness ==
    /\ pc = "health"
    /\ rxg.raced /\ rxg.drained /\ ~canIntPending
    /\ rxg.snapshot = <<>>
    /\ Len(rxg.arrived) = 1
    /\ rxg.dispatched = rxg.arrived

\* C9: every drained frame with the peer-ping identifier causes exactly one
\* send attempt, of a frame with identifier 0x224 and the length and data of
\* the received frame; the pattern only selects the log line.
C9_PongAlways ==
    (lastRx.any /\ lastRx.frame.can_id = PI_PING_ID) =>
        LET f == lastRx.frame
            wellFormed == /\ f.can_dlc = 8
                          /\ f.data[2] = 255 - f.data[1]
                          /\ SubSeq(f.data, 3, 8) = <<85, 170, 195, 60, 90, 165>>
        IN /\ lastRx.sent = <<[can_id |-> PI_PONG_ID, can_dlc |-> f.can_dlc,
                               data |-> f.data]>>
           /\ lastRx.log[1] = IF wellFormed THEN "MATCHED (Pi->ESP PING)"
                              ELSE "MISMATCH pattern from Pi"

\* A peer ping of 4 bytes is answered while 3 or more send errors are
\* recorded.
C9_Witness ==
    /\ lastRx.any /\ lastRx.frame.can_id = PI_PING_ID
    /\ lastRx.frame.can_dlc = 4
    /\ Len(lastRx.sent) = 1
    /\ lastRx.log[1] = "MISMATCH pattern from Pi"
    /\ consecutiveSendErrors >= 3

\* C10: patternMatches(f) is true exactly when f has length 8, byte 1 is
\* byte 0 XOR 0xFF (255 - byte 0) and bytes 2..7 are 0x55, 0xAA, 0xC3, 0x3C,
\* 0x5A, 0xA5; it is true of every frame buildPattern returns and false of
\* every frame of another length.
C10_PatternExactly ==
    LET f == codecFrame.f IN
    /\ patternMatches(f) <=>
          /\ f.can_dlc = 8
          /\ f.data[2] = 255 - f.data[1]
          /\ SubSeq(f.data, 3, 8) = <<85, 170, 195, 60, 90, 165>>
    /\ (codecFrame.built /\ codecFrame.edits = 0) => patternMatches(f)
    /\ f.can_dlc # 8 => ~patternMatches(f)

\* The frame built for counter 200, cut to 7 bytes, is rejected.
C10_Witness ==
    /\ codecFrame.built /\ codecFrame.edits = 1
    /\ codecFrame.f.can_dlc = 7
    /\ codecFrame.f.data = <<200, 55, 85, 170, 195, 60, 90, 165>>
    /\ ~patternMatches(codecFrame.f)

\* C11: framesEqual(f, f) is true for every frame of length 0..8; for two
\* frames, framesEqual is true exactly when the lengths are equal and the
\* data bytes below the length are equal: the identifiers and the bytes at
\* or beyond the length play no part.
C11_FramesEqualExactly ==
    LET a == codecFrame.f
        b == codecFrame.g
    IN /\ a.can_dlc \in 0..8 /\ b.can_dlc \in 0..8
       /\ framesEqual(a, a) /\ framesEqual(b, b)
       /\ framesEqual(a, b) <=>
             /\ a.can_dlc = b.can_dlc
             /\ \A i \in 1..8 : i <= a.can_dlc => a.data[i] = b.data[i]
       /\ framesEqual(a, b) <=> framesEqual(b, a)

\* A built frame cut to 4 bytes equals its copy with byte 5 overwritten.
C11_Witness ==
    /\ codecFrame.copied /\ codecFrame.built
    /\ codecFrame.f.can_dlc = 4 /\ codecFrame.g.can_dlc = 4
    /\ codecFrame.f.data[6] # codecFrame.g.data[6]
    /\ framesEqual(codecFrame.f, codecFrame.g)

\* C12: if the initCan call of setup() fails (it leaves the timestamps at
\* their power-on values), the program halts, and once halted it stays
\* halted: no step of the loop runs, nothing is sent (sendg, pingOut), no
\* frame is drained (rxBuf only grows, lastRx, rxg) and initCan is not
\* called again (hm, sup, and the controller is not reset).
C12_StartupFailureHalts ==
    [][/\ (pc = "setup" /\ lastActivityMs' # clock') => pc' = "halted"
       /\ pc = "halted" =>
            /\ pc' = "halted"
            /\ Len(rxBuf') >= Len(rxBuf)
            /\ SubSeq(rxBuf', 1, Len(rxBuf)) = rxBuf
            /\ UNCHANGED <<now, handledRx, espPingCounter, lastPingMillis,
                           lastActivityMs, consecutiveSendErrors,
                           consecutivePassiveErrors, lastHealthCheckMs,
                           lastEspPingSent, hasLastEspPing, hm, sup, lastRx,
                           sendg, streak, pingOut, rxg>>]_vars

\* Halted for two turns of the halt loop, with a frame buffered and its
\* interrupt pending, and nothing done.
C12_Witness ==
    /\ pc = "halted"
    /\ clock >= SETUP_DELAY_MS + 2 * HALT_DELAY_MS
    /\ rxBuf # <<>> /\ canIntPending
    /\ espPingCounter = 0 /\ ~pingOut.sent /\ lastActivityMs = 0

\* C13: a health poll that reads neither the bus-off bit nor an
\* error-passive bit makes no initCan call; the clear-overflow command is
\* issued once in the polls that read an overflow bit and in no other poll.
C13_OverflowAndWarningsNoReinit ==
    hm.ran =>
        /\ (~hm.busOff /\ ~hm.passive) => hm.inits = 0
        /\ hm.clears = IF hm.overflow THEN 1 ELSE 0

\* A poll reads an overflow bit alone: one clear command, no initCan.
C13_Witness ==
    /\ hm.ran /\ hm.overflow /\ ~hm.busOff /\ ~hm.passive
    /\ hm.clears = 1 /\ hm.inits = 0

\* C14: a failed reinitialization leaves the send-error counter as it was,
\* and recoverIfStalled calls initCan in every iteration that starts with
\* more than 5 failed sends recorded since the last successful send or
\* successful initCan (sup.failsBefore), however many they are.
C14_RetryEveryIteration ==
    sup.ran =>
        /\ (sup.inits > 0 /\ sup.initOks = 0)
              => consecutiveSendErrors = sup.cseBefore
        /\ sup.failsBefore > ERROR_REINIT_LIMIT => sup.inits >= 1

\* C15: after every health poll that runs and reads both error-passive bits
\* clear, the passive-error counter is 0.
C15_PassiveClearResets ==
    (hm.ran /\ ~hm.passive) => consecutivePassiveErrors = 0

\* C16: a step in which initCan succeeds ends with both counters 0, no ping
\* recorded, the pending flag clear and both timestamps at the clock; a
\* step in which initCan fails ends with each of these fields as the caller
\* had it when it made the call (handleHealth has by then stamped the poll
\* and, on the passive path, counted it).
C16_BaselineExactlyOnSuccess ==
    [][LET base == /\ consecutiveSendErrors' = 0
                   /\ consecutivePassiveErrors' = 0
                   /\ ~hasLastEspPing'
                   /\ ~canIntPending'
                   /\ lastActivityMs' = clock'
                   /\ lastHealthCheckMs' = clock'
           keptAll == UNCHANGED <<consecutiveSendErrors,
                                  consecutivePassiveErrors, hasLastEspPing,
                                  canIntPending, lastActivityMs,
                                  lastHealthCheckMs>>
           keptInPoll ==
               /\ UNCHANGED <<consecutiveSendErrors, hasLastEspPing,
                              canIntPending, lastActivityMs>>
               /\ lastHealthCheckMs' = now
               /\ consecutivePassiveErrors' =
                      IF hm'.busOff THEN consecutivePassiveErrors
                      ELSE Inc8(consecutivePassiveErrors)
       IN /\ pc = "setup" => IF pc' = "loop" THEN base ELSE keptAll
          /\ (pc = "recover" /\ sup'.inits > 0)
                => IF sup'.initOks > 0 THEN base ELSE keptAll
          /\ (pc = "health" /\ hm'.inits > 0)
                => IF hm'.initOks > 0 THEN base ELSE keptInPoll]_vars

\* recoverIfStalled has called initCan, the call failed, and the send
\* errors, the passive count, the recorded ping and the pending flag are
\* still there.
C16_Witness ==
    /\ sup.ran /\ sup.inits = 1 /\ sup.initOks = 0
    /\ consecutiveSendErrors >= ERROR_REINIT_LIMIT
    /\ consecutivePassiveErrors > 0
    /\ hasLastEspPing /\ canIntPending

\* C17: a drained frame with the self-pong identifier is logged MATCHED
\* exactly when a ping is recorded and the frame has its length and its data
\* bytes, and MISMATCH otherwise; handling it sends nothing and changes no
\* Link State; every ping cycle records the frame it built, whether or not
\* the send succeeded, and a recorded ping is that of the latest cycle.
C17_PongVerdict ==
    [][/\ (/\ pc = "drain" /\ rxBuf # <<>>
           /\ Head(rxBuf).can_id = ESP_PONG_ID
           /\ rxBuf' = Tail(rxBuf) /\ handledRx') =>
             LET f == Head(rxBuf)
                 g == lastEspPingSent
                 same == /\ hasLastEspPing
                         /\ f.can_dlc = g.can_dlc
                         /\ \A i \in 1..8 :
                                i <= f.can_dlc => f.data[i] = g.data[i]
             IN /\ lastRx'.log = <<IF same THEN "MATCHED (ESP-initiated)"
                                   ELSE "MISMATCH (ESP-initiated)">>
                /\ lastRx'.sent = <<>>
                /\ hasLastEspPing => g = pingOut.frame
                /\ UNCHANGED <<consecutiveSendErrors,
                               consecutivePassiveErrors, hasLastEspPing,
                               lastEspPingSent, espPingCounter,
                               lastPingMillis, lastHealthCheckMs,
                               canIntPending>>
       /\ (pc = "loop" /\ pingOut'.k # pingOut.k) =>
             /\ hasLastEspPing'
             /\ lastEspPingSent' = buildPattern(ESP_PING_ID, espPingCounter)
             /\ pingOut'.frame = lastEspPingSent']_vars

\* A pong equal to the stored frame is logged MISMATCH because no ping is
\* recorded.
C17_Witness ==
    /\ lastRx.any /\ lastRx.frame.can_id = ESP_PONG_ID
    /\ ~hasLastEspPing
    /\ framesEqual(lastEspPingSent, lastRx.frame)
    /\ lastRx.log = <<"MISMATCH (ESP-initiated)">>

\* C18: the k-th self-ping since power-on carries byte 0 = (k-1) mod 256 and
\* byte 1 = 255 - byte 0; the ping counter is the number of ping cycles
\* modulo 256 whatever the sends and the reinitializations did; only the
\* start of an iteration emits a self-ping, at most one, and only when
\* 1000 ms or more have passed since the previous ping cycle.
C18_PingNumbering ==
    [][/\ espPingCounter = pingOut.k % 256
       /\ espPingCounter' = pingOut'.k % 256
       /\ pingOut'.k \in {pingOut.k, pingOut.k + 1}
       /\ pingOut'.k # pingOut.k =>
             /\ pc = "loop"
             /\ clock >= lastPingMillis
             /\ clock - lastPingMillis >= PING_PERIOD_MS
             /\ pingOut'.frame.can_id = ESP_PING_ID
             /\ pingOut'.frame.data[1] = pingOut.k % 256
             /\ pingOut'.frame.data[2] = 255 - pingOut'.frame.data[1]
             /\ pingOut.sent =>
                  pingOut'.frame.data[1] = (pingOut.frame.data[1] + 1) % 256
       /\ pingOut'.k = pingOut.k =>
             \A j \in 1..Len(lastRx'.sent) :
                 lastRx'.sent[j].can_id # ESP_PING_ID]_vars

\* The 257th self-ping carries byte 0 = 0 again; its send failed and the
\* link was reinitialized since, and the counter is at 1.
C18_Witness ==
    /\ pingOut.k = 257
    /\ pingOut.frame.data[1] = 0 /\ pingOut.frame.data[2] = 255
    /\ espPingCounter = 1
    /\ pingOut.initSince /\ sup.inits = 1 /\ sup.initOks = 1

\* C19: a drained frame whose identifier is neither 0x124 nor 0x223, the
\* device's own 0x123 and 0x224 included, is taken from the controller and
\* sets lastActivityMs to the clock; it causes no send attempt and no log
\* line of processRxFrame and changes no other Link State.
C19_ForeignFrameIgnored ==
    [][(/\ pc = "drain" /\ rxBuf # <<>>
        /\ Head(rxBuf).can_id \notin {ESP_PONG_ID, PI_PING_ID}
        /\ rxBuf' = Tail(rxBuf) /\ handledRx') =>
          /\ lastRx'.any /\ lastRx'.frame = Head(rxBuf)
          /\ lastActivityMs' = clock'
          /\ lastRx'.sent = <<>>
          /\ lastRx'.log = <<>>
          /\ UNCHANGED <<consecutiveSendErrors, consecutivePassiveErrors,
                         hasLastEspPing, lastEspPingSent, espPingCounter,
                         lastPingMillis, lastHealthCheckMs,
                         canIntPending>>]_vars

\* A frame with the device's own ping identifier is drained a second after
\* the last activity, while send errors and a ping are recorded.
C19_Witness ==
    /\ lastRx.any /\ lastRx.frame.can_id = ESP_PING_ID
    /\ lastRx.sent = <<>>
    /\ lastActivityMs = clock /\ clock > PING_PERIOD_MS
    /\ consecutiveSendErrors > 0 /\ hasLastEspPing

\* C20: the link supervisor runs right after the health monitor of the same
\* iteration; when the health monitor's initCan succeeded the supervisor
\* calls none, so an iteration makes at most two initCan calls, and two only
\* when the first one failed.
C20_HealthBeforeSupervisor ==
    [][/\ (pc' = "recover" /\ pc # "recover") => pc = "health"
       /\ (pc = "recover" /\ sup'.ran) =>
             /\ sup'.healthInits = hm.inits
             /\ sup'.healthInitOks = hm.initOks
             /\ hm.initOks > 0 => sup'.inits = 0
             /\ hm.inits <= 1 /\ sup'.inits <= 1
             /\ hm.inits + sup'.inits = 2 => hm.initOks = 0]_vars

\* The health monitor reinitialized with success and the supervisor, run
\* after it, made no call.
C20_Witness ==
    /\ sup.ran /\ sup.healthInits = 1 /\ sup.healthInitOks = 1
    /\ sup.inits = 0 /\ consecutiveSendErrors = 0

=============================================================================
